---- MODULE Spec2Model ----
(***************************************************************************)
(* POAV (pi-orbital axis vector) analysis of scikit-nano:                  *)
(* sknano/core/atoms/_poav_atom.py.                                        *)
(*                                                                         *)
(* Numbers.  A Python/numpy float is modelled exactly as an extended       *)
(* rational <<n, d>> in lowest terms with d >= 0:                          *)
(*   d > 0        the finite value n/d                                     *)
(*   <<1, 0>>     +inf      <<-1, 0>>  -inf      <<0, 0>>  nan             *)
(* so that numpy's division by zero (inf or nan, never an exception) is a  *)
(* value of the model.  Rounding is not modelled.                          *)
(***************************************************************************)
EXTENDS Integers, Sequences, FiniteSets, TLC

\* heap: the POAV objects; atom: the POAVAtom of the one-atom specifications;
\* result: the last call and its outcome; atoms: the atoms of the workers of
\* the two-atom specification; solo: each worker's calls made on their own
VARIABLES heap, atom, result, atoms, solo

vars == <<heap, atom, result, atoms, solo>>

----------------------------------------------------------------------------
(* Extended rational arithmetic (numpy float64 semantics without rounding) *)
(* The arithmetic is defined by functions, so that an application          *)
(* evaluates its arguments once.                                           *)

Abs(n) == IF n < 0 THEN -n ELSE n

Sign(n) == IF n < 0 THEN -1 ELSE IF n > 0 THEN 1 ELSE 0

gcd[a \in Nat, b \in Nat] == IF b = 0 THEN a ELSE gcd[b, a % b]

norm[n \in Int, d \in Int] ==
    IF d = 0 THEN <<Sign(n), 0>>
    ELSE LET g == gcd[Abs(n), Abs(d)]
             s == IF d < 0 THEN -1 ELSE 1
         IN  <<(s * n) \div g, (s * d) \div g>>

\* n/d in lowest terms
Norm(n, d) == norm[n, d]

\* the values <<n, d>>
Num == Int \X Nat

Int2Num(k) == <<k, 1>>

NaN == <<0, 0>>

Zero == <<0, 1>>

IsFinite(x) == x[2] # 0

NumNeg(x) == norm[0 - x[1], x[2]]

add[x \in Num, y \in Num] ==
    IF x[2] = 0 /\ y[2] = 0
    THEN (IF x = y THEN x ELSE NaN)
    ELSE IF x[2] = 0 THEN x
    ELSE IF y[2] = 0 THEN y
    ELSE LET g == gcd[x[2], y[2]]
         IN  norm[x[1] * (y[2] \div g) + y[1] * (x[2] \div g),
                  (x[2] \div g) * y[2]]

NumAdd(x, y) == add[x, y]

\* n1/d1 * n2/d2, cancelling across before multiplying
frac[n1 \in Int, d1 \in Int, n2 \in Int, d2 \in Int] ==
    LET g1 == gcd[Abs(n1), Abs(d2)]
        g2 == gcd[Abs(n2), Abs(d1)]
        h1 == IF g1 = 0 THEN 1 ELSE g1
        h2 == IF g2 = 0 THEN 1 ELSE g2
    IN  norm[(n1 \div h1) * (n2 \div h2), (d1 \div h2) * (d2 \div h1)]

mul[x \in Num, y \in Num] == frac[x[1], x[2], y[1], y[2]]

NumMul(x, y) == mul[x, y]

div[x \in Num, y \in Num] == frac[x[1], x[2], y[2], y[1]]

\* x / y as numpy evaluates it: a zero divisor gives +-inf or nan
NumDiv(x, y) == div[x, y]

\* exact square root of a value that is the square of a rational
isqrt[n \in Nat] == CHOOSE r \in 0..n : r * r = n

sqrt[x \in Num] == IF x[2] = 0 THEN x ELSE <<isqrt[x[1]], isqrt[x[2]]>>

----------------------------------------------------------------------------
(* 3-vectors of numbers: sknano.core.math.Vector and the vec functions     *)

Vec3 == Num \X Num \X Num

Vec(x, y, z) == <<Int2Num(x), Int2Num(y), Int2Num(z)>>

vecadd[u \in Vec3, v \in Vec3] == [i \in 1..3 |-> add[u[i], v[i]]]

VecAdd(u, v) == vecadd[u, v]

vecscale[c \in Num, v \in Vec3] == [i \in 1..3 |-> mul[c, v[i]]]

VecScale(c, v) == vecscale[c, v]

vecdiv[v \in Vec3, c \in Num] == [i \in 1..3 |-> div[v[i], c]]

VecDiv(v, c) == vecdiv[v, c]

vecdot[u \in Vec3, v \in Vec3] ==
    add[add[mul[u[1], v[1]], mul[u[2], v[2]]], mul[u[3], v[3]]]

veccross[u \in Vec3, v \in Vec3] ==
    << add[mul[u[2], v[3]], NumNeg(mul[u[3], v[2]])],
       add[mul[u[3], v[1]], NumNeg(mul[u[1], v[3]])],
       add[mul[u[1], v[2]], NumNeg(mul[u[2], v[1]])] >>

cross(u, v) == veccross[u, v]

scalar_triple_product(u, v, w) == vecdot[u, veccross[v, w]]

\* Vector.length of a bond vector (the inputs have rational lengths)
length(v) == sqrt[vecdot[v, v]]

\* Vector.unit_vector: v / |v|; the zero vector gives nan components
unit_vector(v) == vecdiv[v, sqrt[vecdot[v, v]]]

\* the integer part of the square root of n
fsqrt[n \in Nat] == CHOOSE r \in 0..n : r * r <= n /\ (r + 1) * (r + 1) > n

\* the largest s with s*s dividing n
sqpart[n \in Nat] ==
    CHOOSE s \in 1..fsqrt[n] :
        /\ n % (s * s) = 0
        /\ \A y \in (s + 1)..fsqrt[n] : n % (y * y) # 0

\* the values c * sqrt(r)
SurdSet == [c : Num, r : Nat]

\* a real number c * sqrt(r), r a square-free positive integer
surd[c \in Num, r \in Nat] ==
    [c |-> c, r |-> IF c[2] = 0 \/ c[1] = 0 THEN 1 ELSE r]

\* the square root of a number
surdsqrt[x \in Num] ==
    IF x[2] = 0 \/ x[1] <= 0 THEN surd[IF x[1] < 0 THEN NaN ELSE x, 1]
    ELSE LET sp == sqpart[x[1]]
             sq == sqpart[x[2]]
             rp == x[1] \div (sp * sp)
             rq == x[2] \div (sq * sq)
         IN  surd[norm[sp, sq * rq], rp * rq]

\* Vector.magnitude of an arbitrary vector
magnitude(v) == surdsqrt[vecdot[v, v]]

\* x / s for a number x and a surd s: x / (c sqrt r) = x / (c r) * sqrt r
oversurd[x \in Num, s \in SurdSet] ==
    surd[div[x, mul[s.c, <<s.r, 1>>]], s.r]

NumOverSurd(x, s) == oversurd[x, s]

----------------------------------------------------------------------------
(* Python values.  Every value carries its runtime type, as isinstance     *)
(* sees it.                                                                *)

None == [type |-> "NoneType"]

PyList(items) == [type |-> "list", items |-> items]

PyTuple(items) == [type |-> "tuple", items |-> items]

PyFloat(x) == [type |-> "float", val |-> x]

\* a reference to the POAV object heap[i]; its type is the object's class
Ref(i) == [type |-> heap[i].cls, ref |-> i]

\* a real number q * pi^pi: radians are kept as multiples of pi
Real(q, p) == [q |-> q, pi |-> p]

\* k * pi/12 radians
Rad12(k) == Real(Norm(k, 12), 1)

\* np.radians in place of np.degrees
degrees_AsRadians(x) == Real(NumDiv(x.q, Int2Num(180)), x.pi + 1)

\* np.degrees(x) = x * 180 / pi
degrees(x) == Real(NumMul(x.q, Int2Num(180)), x.pi - 1)

\* np.cos of c*pi for the multiples of pi/12 whose cosine is rational
cos(x) ==
    IF ~IsFinite(x.q) THEN NaN
    ELSE
    LET k == ((12 * x.q[1]) \div x.q[2]) % 24
    IN  CASE k \in {0}      -> <<1, 1>>
          [] k \in {4, 20}  -> <<1, 2>>
          [] k \in {6, 18}  -> <<0, 1>>
          [] k \in {8, 16}  -> <<-1, 2>>
          [] k \in {12}     -> <<-1, 1>>

\* the sum of the coefficients of pi of the first n items
RECURSIVE SumQ(_, _)
SumQ(items, n) ==
    IF n = 0 THEN Zero ELSE NumAdd(items[n].q, SumQ(items, n - 1))

\* np.mean of a list of radians
mean(items) == Real(NumDiv(SumQ(items, Len(items)), Int2Num(Len(items))), 1)

----------------------------------------------------------------------------
(* The Bonds collaborator (sknano.core.atoms.Bonds): an ordered list of    *)
(* bond vectors, the angles of its bond pairs, and the pairs themselves.   *)

\* combinations(range(n), 2) in order: (1,2), (1,3), ..., (n-1,n)
pairsFrom[i \in Nat, j \in Nat, n \in Nat] ==
    IF i >= n THEN <<>>
    ELSE IF j > n THEN pairsFrom[i + 1, i + 2, n]
    ELSE <<{i, j}>> \o pairsFrom[i, j + 1, n]

\* cosine of the angle between two bond vectors
cosangle[u \in Vec3, v \in Vec3] ==
    div[vecdot[u, v], mul[sqrt[vecdot[u, u]], sqrt[vecdot[v, v]]]]

\* the angle of a pair of bonds, kept by its cosine (it is arccos of it)
PairAngle(vectors, pair) ==
    [acos |-> cosangle[vectors[CHOOSE a \in pair : \A b \in pair : a <= b],
                       vectors[CHOOSE a \in pair : \A b \in pair : a >= b]]]

\* a Bonds collection over the given bond vectors: bonds[k].vector,
\* bonds.bond_angle_pairs and bonds.angles (angles[k] belongs to pair k)
Bonds(vectors) ==
    [vectors |-> vectors,
     bond_angle_pairs |-> pairsFrom[1, 2, Len(vectors)],
     angles |-> [k \in 1..((Len(vectors) * (Len(vectors) - 1)) \div 2) |->
                    PairAngle(vectors, pairsFrom[1, 2, Len(vectors)][k])]]

\* the orders in which a collection of three bonds can list its three pairs
PairOrders == {order \in [1..3 -> 1..3] : \A j, k \in 1..3 :
                                              order[j] = order[k] => j = k}

\* a Bonds collection over three bond vectors that lists its pairs in the
\* given order; angles[k] still belongs to pair k
BondsInOrder(vectors, order) ==
    [vectors |-> vectors,
     bond_angle_pairs |-> [k \in 1..3 |-> pairsFrom[1, 2, 3][order[k]]],
     angles |-> [k \in 1..3 |->
                    PairAngle(vectors, pairsFrom[1, 2, 3][order[k]])]]

\* np.cos of a bond angle
cosBond(a) == a.acos

----------------------------------------------------------------------------
(* class POAV and its sub-classes POAV1, POAV2, POAVR                      *)
(* A constructor or method returns Ok(value) or Fail(exception).           *)
(* CHOOSE r_ \in {F(x) : x \in {e}} : TRUE is F(x) with x the value of e.  *)

Classes == {"POAV", "POAV1", "POAV2", "POAVR"}

Ok(o) == [ok |-> TRUE, obj |-> o]

Fail(e) == [ok |-> FALSE, exc |-> e]

\* POAV.__init__: the first three bonds are read by index
POAV_init(cls, bonds) ==
    IF Len(bonds.vectors) < 3 THEN Fail("IndexError")
    ELSE Ok([cls |-> cls,
             bonds |-> bonds,
             b |-> SubSeq(bonds.vectors, 1, 3),
             v |-> SubSeq(bonds.vectors, 1, 3),
             T |-> NumDiv(scalar_triple_product(unit_vector(bonds.vectors[1]),
                                                unit_vector(bonds.vectors[2]),
                                                unit_vector(bonds.vectors[3])),
                          Int2Num(6)),
             cosa |-> <<>>,
             sigma_pi_angles |-> None,
             pyramidalization_angles |-> None,
             misalignment_angles |-> None])

\* POAV.V1, V2, V3
V(o, i) == unit_vector(o.b[i])

\* POAV.R1, R2, R3
R(o, i) == length(o.b[i])

\* POAV1.__init__ leaving v1, v2, v3 the raw bond vectors
POAV1_init_RawBonds(bonds) == POAV_init("POAV1", bonds)

\* POAV1.__init__
POAV1_init(bonds) ==
    CHOOSE r_ \in
        {IF ~base.ok THEN base
         ELSE Ok([base.obj EXCEPT !.v = [i \in 1..3 |-> V(base.obj, i)]])
           : base \in {POAV_init("POAV1", bonds)}} : TRUE

\* bond_angles[np.in1d(self.bonds, pair, invert=True)]: the angles at the
\* positions of the bonds that are not in the pair
NotInPair(bonds, pair) ==
    SelectSeq([k \in 1..Len(bonds.vectors) |-> k], LAMBDA k : k \notin pair)

\* functools.reduce(operator.mul, np.cos(bond_angles), 1) over the first n
RECURSIVE ProdCos(_, _)
ProdCos(as, n) ==
    IF n = 0 THEN Int2Num(1)
    ELSE NumMul(ProdCos(as, n - 1), cosBond(as[n]))

\* POAV2.__init__ taking for bond i the angle at position i
POAV2_init_AngleOfOwnIndex(bonds) ==
    CHOOSE r_ \in
        {IF ~base.ok THEN base
         ELSE IF Len(bonds.angles) # Len(bonds.vectors) THEN Fail("IndexError")
         ELSE Ok([base.obj EXCEPT
                    !.v = [i \in 1..3 |->
                             VecScale(cosBond(bonds.angles[i]),
                                      unit_vector(bonds.vectors[i]))],
                    !.cosa = [k \in 1..3 |-> cosBond(bonds.angles[k])],
                    !.T = NumMul(NumNeg(ProdCos(bonds.angles,
                                                Len(bonds.angles))),
                                 base.obj.T)])
           : base \in {POAV_init("POAV2", bonds)}} : TRUE

\* POAV2.__init__ with the product taken over cosa12 and cosa13 alone
POAV2_init_TwoCosines(bonds) ==
    CHOOSE r_ \in
        {IF ~base.ok THEN base
         ELSE IF Len(bonds.angles) # Len(bonds.vectors) THEN Fail("IndexError")
         ELSE Ok([base.obj EXCEPT
                    !.v = [i \in 1..3 |->
                             VecScale(cosBond(bonds.angles[
                                        NotInPair(bonds,
                                                  bonds.bond_angle_pairs[i])[1]]),
                                      unit_vector(bonds.vectors[i]))],
                    !.cosa = [k \in 1..3 |-> cosBond(bonds.angles[k])],
                    !.T = NumMul(NumNeg(ProdCos(bonds.angles, 2)),
                                 base.obj.T)])
           : base \in {POAV_init("POAV2", bonds)}} : TRUE

\* POAV2.__init__; a boolean mask over the bonds indexes the angle array,
\* which numpy refuses unless there are as many angles as bonds
POAV2_init(bonds) ==
    CHOOSE r_ \in
        {IF ~base.ok THEN base
         ELSE IF Len(bonds.angles) # Len(bonds.vectors) THEN Fail("IndexError")
         ELSE Ok([base.obj EXCEPT
                    !.v = [i \in 1..3 |->
                             VecScale(cosBond(bonds.angles[
                                        NotInPair(bonds,
                                                  bonds.bond_angle_pairs[i])[1]]),
                                      unit_vector(bonds.vectors[i]))],
                    !.cosa = [k \in 1..3 |-> cosBond(bonds.angles[k])],
                    !.T = NumMul(NumNeg(ProdCos(bonds.angles,
                                                Len(bonds.angles))),
                                 base.obj.T)])
           : base \in {POAV_init("POAV2", bonds)}} : TRUE

\* POAVR.__init__ without the rescaling of _T
POAVR_init_TNotRescaled(bonds) ==
    CHOOSE r_ \in
        {IF ~base.ok THEN base
         ELSE Ok([base.obj EXCEPT
                    !.v = [i \in 1..3 |->
                             VecScale(R(base.obj, i), V(base.obj, i))]])
           : base \in {POAV_init("POAVR", bonds)}} : TRUE

\* POAVR.__init__
POAVR_init(bonds) ==
    CHOOSE r_ \in
        {IF ~base.ok THEN base
         ELSE Ok([base.obj EXCEPT
                    !.v = [i \in 1..3 |->
                             VecScale(R(base.obj, i), V(base.obj, i))],
                    !.T = NumMul(NumMul(NumMul(R(base.obj, 1), R(base.obj, 2)),
                                        R(base.obj, 3)),
                                 base.obj.T)])
           : base \in {POAV_init("POAVR", bonds)}} : TRUE

\* cls(bonds)
New(cls, bonds) ==
    CASE cls = "POAV"  -> POAV_init("POAV", bonds)
      [] cls = "POAV1" -> POAV1_init(bonds)
      [] cls = "POAV2" -> POAV2_init(bonds)
      [] cls = "POAVR" -> POAVR_init(bonds)

\* POAV.t with two vectors exchanged
t_Exchanged(o) == scalar_triple_product(o.v[2], o.v[1], o.v[3])

\* POAV.t
t(o) == scalar_triple_product(o.v[1], o.v[2], o.v[3])

\* POAV.reciprocal_v1, reciprocal_v2, reciprocal_v3
reciprocal_v(o, i) == cross(o.v[(i % 3) + 1], o.v[((i + 1) % 3) + 1])

\* POAV.vpi
vpi(o) ==
    VecDiv(VecAdd(VecAdd(reciprocal_v(o, 1), reciprocal_v(o, 2)),
                  reciprocal_v(o, 3)),
           t(o))

\* Vector.unit_vector of an arbitrary vector: each component v[i] / |v|
unit_surd[v \in Vec3] == [i \in 1..3 |-> NumOverSurd(v[i], magnitude(v))]

\* POAV.Vpi
Vpi(o) == unit_surd[vpi(o)]

\* POAV.T
T(o) == o.T

\* POAV.A
A(o) == magnitude(vpi(o))

\* POAV.H computed from the volume of the unit bond vectors in every class
H_ReferenceVolume(o) ==
    NumOverSurd(NumMul(Int2Num(3),
                       NumDiv(scalar_triple_product(V(o, 1), V(o, 2), V(o, 3)),
                              Int2Num(6))),
                A(o))

\* POAV.H
H(o) == NumOverSurd(NumMul(Int2Num(3), T(o)), A(o))

\* the angle-array setters: sigma_pi_angles, pyramidalization_angles,
\* misalignment_angles
AngleNames ==
    {"sigma_pi_angles", "pyramidalization_angles", "misalignment_angles"}

\* a setter that takes None as well as a list
sigma_pi_angles_set_NoneAllowed(o, value) ==
    IF value.type \notin {"list", "NoneType"} THEN Fail("TypeError")
    ELSE Ok([o EXCEPT !.sigma_pi_angles = value])

sigma_pi_angles_set(o, value) ==
    IF value.type # "list" THEN Fail("TypeError")
    ELSE Ok([o EXCEPT !.sigma_pi_angles = value])

pyramidalization_angles_set(o, value) ==
    IF value.type # "list" THEN Fail("TypeError")
    ELSE Ok([o EXCEPT !.pyramidalization_angles = value])

\* the third setter storing into the field of the second
misalignment_angles_set_WrongField(o, value) ==
    IF value.type # "list" THEN Fail("TypeError")
    ELSE Ok([o EXCEPT !.pyramidalization_angles = value])

misalignment_angles_set(o, value) ==
    IF value.type # "list" THEN Fail("TypeError")
    ELSE Ok([o EXCEPT !.misalignment_angles = value])

\* setters that also recompute _T from the current v1, v2, v3
SetAttr_RecomputesT(o, name, value) ==
    IF value.type # "list" THEN Fail("TypeError")
    ELSE Ok([o EXCEPT ![name] = value,
                      !.T = NumDiv(scalar_triple_product(o.v[1], o.v[2], o.v[3]),
                                   Int2Num(6))])

SetAttr(o, name, value) ==
    CASE name = "sigma_pi_angles" -> sigma_pi_angles_set(o, value)
      [] name = "pyramidalization_angles" ->
            pyramidalization_angles_set(o, value)
      [] name = "misalignment_angles" -> misalignment_angles_set(o, value)

\* np.degrees of a stored array: None has no degrees
np_degrees(value) ==
    IF value.type = "NoneType" THEN Fail("TypeError")
    ELSE Ok([type |-> "ndarray",
             items |-> [k \in 1..Len(value.items) |-> degrees(value.items[k])]])

\* the array as todict reads it
Exported(value, rad2deg) == IF rad2deg THEN np_degrees(value) ELSE Ok(value)

\* the exception of value[0], value[1], value[2], or "none"
Subscript3(value) ==
    IF value.type = "NoneType" THEN "TypeError"
    ELSE IF Len(value.items) < 3 THEN "IndexError"
    ELSE "none"

\* todict returning the stored arrays whole, without subscripting them
POAV_todict_Unsubscripted(o, rad2deg) ==
    Ok([sigma_pi_angles |-> o.sigma_pi_angles,
        pyramidalization_angles |-> o.pyramidalization_angles,
        misalignment_angles |-> o.misalignment_angles,
        T |-> T(o), H |-> H(o), A |-> A(o)])

\* POAV.todict
POAV_todict(o, rad2deg) ==
    CHOOSE r_ \in
        {IF ~(sigma.ok /\ pyram.ok /\ misal.ok) THEN Fail("TypeError")
         ELSE IF Subscript3(sigma.obj) # "none"
              THEN Fail(Subscript3(sigma.obj))
         ELSE IF Subscript3(pyram.obj) # "none"
              THEN Fail(Subscript3(pyram.obj))
         ELSE IF Subscript3(misal.obj) # "none"
              THEN Fail(Subscript3(misal.obj))
         ELSE Ok([bond1 |-> length(o.b[1]),
                  bond2 |-> length(o.b[2]),
                  bond3 |-> length(o.b[3]),
                  sigma_pi_angle1 |-> sigma.obj.items[1],
                  sigma_pi_angle2 |-> sigma.obj.items[2],
                  sigma_pi_angle3 |-> sigma.obj.items[3],
                  pyramidalization_angle1 |-> pyram.obj.items[1],
                  pyramidalization_angle2 |-> pyram.obj.items[2],
                  pyramidalization_angle3 |-> pyram.obj.items[3],
                  misalignment_angle1 |-> misal.obj.items[1],
                  misalignment_angle2 |-> misal.obj.items[2],
                  misalignment_angle3 |-> misal.obj.items[3],
                  T |-> T(o), H |-> H(o), A |-> A(o)])
           : sigma \in {Exported(o.sigma_pi_angles, rad2deg)},
             pyram \in {Exported(o.pyramidalization_angles, rad2deg)},
             misal \in {Exported(o.misalignment_angles, rad2deg)}} : TRUE

\* dict.update: the entries of e are added to d, replacing equal keys
update(d, e) ==
    [k \in DOMAIN d \cup DOMAIN e |-> IF k \in DOMAIN e THEN e[k] ELSE d[k]]

\* 2 c / (1 - 3 c)
m_of_cos2[c \in Num] ==
    div[mul[<<2, 1>>, c], add[<<1, 1>>, NumNeg(mul[<<3, 1>>, c])]]

\* x squared
square[x \in Num] == mul[x, x]

\* POAV1.m taking an unset array for an array of zeros
POAV1_m_NoneAsZeros(o) ==
    IF o.sigma_pi_angles.type = "NoneType"
    THEN Ok(m_of_cos2[square[cos(Real(Zero, 1))]])
    ELSE Ok(m_of_cos2[square[cos(mean(o.sigma_pi_angles.items))]])

\* POAV1.m; np.mean(None) is a TypeError
POAV1_m(o) ==
    IF o.sigma_pi_angles.type = "NoneType" THEN Fail("TypeError")
    ELSE Ok(m_of_cos2[square[cos(mean(o.sigma_pi_angles.items))]])

\* 3 m + 2
n_of_m[m \in Num] == add[mul[<<3, 1>>, m], <<2, 1>>]

\* POAV1.n as 3 * (m + 2)
POAV1_n_Parenthesised(o) ==
    CHOOSE r_ \in {IF ~m.ok THEN m
                   ELSE Ok(mul[<<3, 1>>, add[m.obj, <<2, 1>>]])
                     : m \in {POAV1_m(o)}} : TRUE

\* POAV1.n
POAV1_n(o) ==
    CHOOSE r_ \in {IF ~m.ok THEN m ELSE Ok(n_of_m[m.obj])
                     : m \in {POAV1_m(o)}} : TRUE

\* POAV1.todict adding m alone
POAV1_todict_OnlyM(o, rad2deg) ==
    CHOOSE r_ \in
        {IF ~super_dict.ok THEN super_dict
         ELSE IF ~m.ok THEN m
         ELSE Ok(update(super_dict.obj, [m |-> m.obj]))
           : super_dict \in {POAV_todict(o, rad2deg)},
             m \in {POAV1_m(o)}} : TRUE

\* POAV1.todict
POAV1_todict(o, rad2deg) ==
    CHOOSE r_ \in
        {IF ~super_dict.ok THEN super_dict
         ELSE IF ~m.ok THEN m
         ELSE Ok(update(super_dict.obj, [m |-> m.obj, n |-> n.obj]))
           : super_dict \in {POAV_todict(o, rad2deg)},
             m \in {POAV1_m(o)},
             n \in {POAV1_n(o)}} : TRUE

\* -a / (b c)
n_of_cos[a \in Num, b \in Num, c \in Num] == div[NumNeg(a), mul[b, c]]

\* POAV2.n1, n2, n3 from cosa12 = cosa[1], cosa13 = cosa[2], cosa23 = cosa[3]
POAV2_n1(o) == n_of_cos[o.cosa[3], o.cosa[1], o.cosa[2]]

POAV2_n2(o) == n_of_cos[o.cosa[2], o.cosa[1], o.cosa[3]]

POAV2_n3(o) == n_of_cos[o.cosa[1], o.cosa[3], o.cosa[2]]

\* 1 / (1 + n)
s_of_n[n \in Num] == div[<<1, 1>>, add[<<1, 1>>, n]]

\* 1 / sum([s1, s2, s3]) - 1
m_of_s[s1 \in Num, s2 \in Num, s3 \in Num] ==
    add[div[<<1, 1>>, add[add[add[<<0, 1>>, s1], s2], s3]], <<-1, 1>>]

\* POAV2.m as 1 / (sum([s1, s2, s3]) - 1)
POAV2_m_Precedence(o) ==
    div[<<1, 1>>,
        add[add[add[s_of_n[POAV2_n1(o)], s_of_n[POAV2_n2(o)]],
                s_of_n[POAV2_n3(o)]], <<-1, 1>>]]

\* POAV2.m
POAV2_m(o) ==
    m_of_s[s_of_n[POAV2_n1(o)], s_of_n[POAV2_n2(o)], s_of_n[POAV2_n3(o)]]

\* POAV2.todict
POAV2_todict(o, rad2deg) ==
    CHOOSE r_ \in
        {IF ~super_dict.ok THEN super_dict
         ELSE Ok(update(super_dict.obj,
                        [m |-> POAV2_m(o), n1 |-> POAV2_n1(o),
                         n2 |-> POAV2_n2(o), n3 |-> POAV2_n3(o)]))
           : super_dict \in {POAV_todict(o, rad2deg)}} : TRUE

\* o.todict(rad2deg), dispatched on the class of o
todict(o, rad2deg) ==
    CASE o.cls = "POAV1" -> POAV1_todict(o, rad2deg)
      [] o.cls = "POAV2" -> POAV2_todict(o, rad2deg)
      [] OTHER -> POAV_todict(o, rad2deg)

----------------------------------------------------------------------------
(* class POAVAtom(POAVAtomMixin, KDTAtom)                                  *)

Slots == {"POAV1", "POAV2", "POAVR"}

\* POAVAtom.__init__
POAVAtom_init == [POAV1 |-> None, POAV2 |-> None, POAVR |-> None]

\* isinstance(value, POAV) in place of isinstance(value, POAV1)
POAV1_set_AnyPOAV(a, value) ==
    IF value.type \notin Classes THEN Fail("TypeError")
    ELSE Ok([a EXCEPT !.POAV1 = value])

\* a POAVR setter that tests for POAV2, as the setter above it does
POAVR_set_TestsPOAV2(a, value) ==
    IF value.type # "POAV2" THEN Fail("TypeError")
    ELSE Ok([a EXCEPT !.POAVR = value])

\* every getter returning self._POAV1
GetSlot_AlwaysPOAV1(a, slot) == a["POAV1"]

\* POAVAtomMixin.POAV1, POAV2, POAVR setters
POAV1_set(a, value) ==
    IF value.type # "POAV1" THEN Fail("TypeError")
    ELSE Ok([a EXCEPT !.POAV1 = value])

POAV2_set(a, value) ==
    IF value.type # "POAV2" THEN Fail("TypeError")
    ELSE Ok([a EXCEPT !.POAV2 = value])

POAVR_set(a, value) ==
    IF value.type # "POAVR" THEN Fail("TypeError")
    ELSE Ok([a EXCEPT !.POAVR = value])

SetSlot(a, slot, value) ==
    CASE slot = "POAV1" -> POAV1_set(a, value)
      [] slot = "POAV2" -> POAV2_set(a, value)
      [] slot = "POAVR" -> POAVR_set(a, value)

\* POAVAtomMixin.POAV1, POAV2, POAVR getters
GetSlot(a, slot) == a[slot]

----------
(* Bounds and inputs                                                       *)

\* objects on the heap of the attachment specification
MaxInst == 2

\* objects on the heap of the geometry specification
MaxGeomInst == 1

\* longest list assigned to an angle array
MaxListLen == 4

\* largest bond collection handed to a constructor
MaxBonds == 4

BaseVectors ==
    << Vec(1, 2, 2), Vec(2, 1, 2), Vec(2, 2, 1),
       Vec(1, 0, 0), Vec(0, 1, 0), Vec(0, 0, 1) >>

\* three bonds at equal angles (cosine 8/9), each of length 3
Skew == SubSeq(BaseVectors, 1, 3)

Ortho == << Vec(1, 0, 0), Vec(0, 1, 0), Vec(0, 0, 1) >>

Stretched == << Vec(2, 4, 4), Vec(2, 1, 2), Vec(2, 2, 1) >>

Coplanar == << Vec(1, 0, 0), Vec(0, 1, 0), Vec(3, 4, 0) >>

WithZero == << Vec(1, 2, 2), Vec(2, 1, 2), Vec(0, 0, 0) >>

\* three bonds of lengths 1, 3, 5 at three different angles (cosines 1/3,
\* 3/5, 11/15)
Mixed == << Vec(1, 0, 0), Vec(1, 2, 2), Vec(3, 4, 0) >>

BondInputs ==
    {SubSeq(BaseVectors, 1, n) : n \in 2..MaxBonds}
        \cup {Ortho, Stretched, Coplanar, WithZero, Mixed}

\* lists of radians, in units of pi/12: [4, 8, 6, 6, ...] and [2, 6, 4]
ListA(n) ==
    PyList([k \in 1..n |-> Rad12(IF k = 1 THEN 4 ELSE IF k = 2 THEN 8 ELSE 6)])

ListB == PyList(<<Rad12(2), Rad12(6), Rad12(4)>>)

\* three angles of pi/2
ListC == PyList(<<Rad12(6), Rad12(6), Rad12(6)>>)

AngleInputs ==
    {ListA(n) : n \in 2..MaxListLen}
        \cup {ListB, ListC, None, PyFloat(Rad12(6)),
              PyTuple(<<Rad12(6), Rad12(6), Rad12(6)>>)}

\* values assigned to an attachment slot
SlotInputs == {Ref(i) : i \in 1..Len(heap)} \cup {None, PyFloat(Rad12(6))}

\* the properties every class has
PropNames == {"t", "vpi", "Vpi", "T", "A", "H"}

\* the hybridization properties of the sub-classes
HybridNames == {"m", "n", "n1", "n2", "n3"}

ReadOf(o, prop) ==
    CASE prop = "t"   -> t(o)
      [] prop = "vpi" -> vpi(o)
      [] prop = "Vpi" -> Vpi(o)
      [] prop = "T"   -> T(o)
      [] prop = "A"   -> A(o)
      [] prop = "H"   -> H(o)

\* getattr(o, prop): the base properties never raise; a hybridization
\* property exists only in the class that defines it
GetProp(o, prop) ==
    CASE prop \in PropNames -> Ok(ReadOf(o, prop))
      [] prop = "m" /\ o.cls = "POAV1" -> POAV1_m(o)
      [] prop = "n" /\ o.cls = "POAV1" -> POAV1_n(o)
      [] prop = "m" /\ o.cls = "POAV2" -> Ok(POAV2_m(o))
      [] prop = "n1" /\ o.cls = "POAV2" -> Ok(POAV2_n1(o))
      [] prop = "n2" /\ o.cls = "POAV2" -> Ok(POAV2_n2(o))
      [] prop = "n3" /\ o.cls = "POAV2" -> Ok(POAV2_n3(o))
      [] OTHER -> Fail("AttributeError")

----------------------------------------------------------------------------
(* Operations.  result records the last call: what was called, with what,  *)
(* and what it returned or raised.                                         *)

Returned(op, args, v) == [op |-> op, args |-> args, kind |-> "return", val |-> v]

Raised(op, args, e) == [op |-> op, args |-> args, kind |-> "raise", exc |-> e]

\* cls(bonds)
Construct(cls, vectors, cap) ==
    /\ Len(heap) < cap
    /\ \E r \in {New(cls, bonds) : bonds \in {Bonds(vectors)}} :
           IF r.ok
           THEN /\ heap' = Append(heap, r.obj)
                /\ result' = Returned("new", <<cls, vectors>>,
                                      [type |-> cls, ref |-> Len(heap) + 1])
           ELSE /\ heap' = heap
                /\ result' = Raised("new", <<cls, vectors>>, r.exc)
    /\ UNCHANGED <<atom, atoms, solo>>

\* POAV2(bonds) for a collection that lists its pairs in the given order
ConstructInOrder(vectors, order, cap) ==
    /\ Len(heap) < cap
    /\ \E r \in {New("POAV2", bonds)
                    : bonds \in {BondsInOrder(vectors, order)}} :
           IF r.ok
           THEN /\ heap' = Append(heap, r.obj)
                /\ result' = Returned("new", <<"POAV2", vectors, order>>,
                                      [type |-> "POAV2", ref |-> Len(heap) + 1])
           ELSE /\ heap' = heap
                /\ result' = Raised("new", <<"POAV2", vectors, order>>, r.exc)
    /\ UNCHANGED <<atom, atoms, solo>>

\* a setter that clears the slot before it tests the value
AssignSlot_ClearsFirst(slot, value) ==
    /\ \E r \in {SetSlot(atom, slot, value)} :
           IF r.ok
           THEN /\ atom' = r.obj
                /\ result' = Returned("setslot", <<slot, value>>, None)
           ELSE /\ atom' = [atom EXCEPT ![slot] = None]
                /\ result' = Raised("setslot", <<slot, value>>, r.exc)
    /\ UNCHANGED <<heap, atoms, solo>>

\* atom.<slot> = value
AssignSlot(slot, value) ==
    /\ \E r \in {SetSlot(atom, slot, value)} :
           IF r.ok
           THEN /\ atom' = r.obj
                /\ result' = Returned("setslot", <<slot, value>>, None)
           ELSE /\ atom' = atom
                /\ result' = Raised("setslot", <<slot, value>>, r.exc)
    /\ UNCHANGED <<heap, atoms, solo>>

\* atom.<slot>
ReadSlot(slot) ==
    /\ result' = Returned("getslot", <<slot>>, GetSlot(atom, slot))
    /\ UNCHANGED <<heap, atom, atoms, solo>>

\* heap[i].<name> = value
AssignAngles(i, name, value) ==
    /\ \E r \in {SetAttr(heap[i], name, value)} :
           IF r.ok
           THEN /\ heap' = [heap EXCEPT ![i] = r.obj]
                /\ result' = Returned("setattr", <<i, name, value>>, None)
           ELSE /\ heap' = heap
                /\ result' = Raised("setattr", <<i, name, value>>, r.exc)
    /\ UNCHANGED <<atom, atoms, solo>>

\* a todict that stores the converted arrays back into the object
CallTodict_InPlace(i, rad2deg) ==
    /\ \E r \in {todict(heap[i], rad2deg)} :
           /\ result' = IF r.ok THEN Returned("todict", <<i, rad2deg>>, r.obj)
                         ELSE Raised("todict", <<i, rad2deg>>, r.exc)
           /\ heap' = IF r.ok /\ rad2deg
                       THEN [heap EXCEPT
                               ![i].sigma_pi_angles =
                                   PyList(np_degrees(@).obj.items),
                               ![i].pyramidalization_angles =
                                   PyList(np_degrees(@).obj.items),
                               ![i].misalignment_angles =
                                   PyList(np_degrees(@).obj.items)]
                       ELSE heap
    /\ UNCHANGED <<atom, atoms, solo>>

\* heap[i].todict(rad2deg)
CallTodict(i, rad2deg) ==
    /\ \E r \in {todict(heap[i], rad2deg)} :
           result' = IF r.ok THEN Returned("todict", <<i, rad2deg>>, r.obj)
                     ELSE Raised("todict", <<i, rad2deg>>, r.exc)
    /\ UNCHANGED <<heap, atom, atoms, solo>>

\* heap[i].<prop>
ReadProp(i, prop) ==
    /\ \E r \in {GetProp(heap[i], prop)} :
           result' = IF r.ok THEN Returned("read", <<i, prop>>, r.obj)
                     ELSE Raised("read", <<i, prop>>, r.exc)
    /\ UNCHANGED <<heap, atom, atoms, solo>>

NoCall == Returned("init", <<>>, None)

----------------------------------------------------------------------------
(* Specifications                                                          *)

\* an atom, the objects built for it, and its attachment slots
InitSlots ==
    /\ heap = <<>>
    /\ atom = POAVAtom_init
    /\ result = NoCall
    /\ atoms = <<>>
    /\ solo = <<>>

NextSlots ==
    \/ \E cls \in Classes : Construct(cls, Skew, MaxInst)
    \/ \E slot \in Slots : \E value \in SlotInputs : AssignSlot(slot, value)
    \/ \E slot \in Slots : ReadSlot(slot)

SpecSlots == InitSlots /\ [][NextSlots]_vars

\* one object of any class, its angle arrays and its export
InitAngles ==
    /\ heap \in {<<New(cls, Bonds(Skew)).obj>> : cls \in Classes}
    /\ atom = POAVAtom_init
    /\ result = NoCall
    /\ atoms = <<>>
    /\ solo = <<>>

NextAngles ==
    \/ \E i \in 1..Len(heap) : \E name \in AngleNames :
           \E value \in AngleInputs : AssignAngles(i, name, value)
    \/ \E i \in 1..Len(heap) : \E rad2deg \in BOOLEAN : CallTodict(i, rad2deg)
    \/ \E i \in 1..Len(heap) : \E prop \in HybridNames : ReadProp(i, prop)

SpecAngles == InitAngles /\ [][NextAngles]_vars

\* construction from any bond collection, and the derived geometry
NextGeom ==
    \/ \E cls \in Classes : \E vectors \in BondInputs :
           Construct(cls, vectors, MaxGeomInst)
    \/ \E vectors \in {Skew, Mixed} : \E order \in PairOrders :
           ConstructInOrder(vectors, order, MaxGeomInst)
    \/ \E i \in 1..Len(heap) : \E prop \in PropNames \cup HybridNames :
           ReadProp(i, prop)

SpecGeom == InitSlots /\ [][NextGeom]_vars

----------------------------------------------------------------------------
(* Attachment slots (SpecSlots)                                            *)

IsNone(value) == value.type = "NoneType"

\* C1: every attachment slot holds the absent marker None or a reference to
\* an object of the slot's own class, never another class, the base class
\* or any other value, whatever was assigned before.
C1_SlotHoldsOwnVariant ==
    \A slot \in Slots :
        \/ IsNone(atom[slot])
        \/ /\ atom[slot].type = slot
           /\ atom[slot].ref \in 1..Len(heap)
           /\ heap[atom[slot].ref].cls = slot

\* a slot holds an object and an assignment has just been rejected
C1_Witness ==
    /\ result.op = "setslot"
    /\ result.kind = "raise"
    /\ \E slot \in Slots : ~IsNone(atom[slot])

\* C2: assigning a value whose runtime class is not the slot's class raises
\* the setter's type error (TypeError); assigning an object of the slot's
\* class succeeds and the slot then holds it.
C2_SetterChecksVariant ==
    result.op = "setslot" =>
        IF result.args[2].type = result.args[1]
        THEN result.kind = "return" /\ atom[result.args[1]] = result.args[2]
        ELSE result.kind = "raise" /\ result.exc = "TypeError"

\* a POAV2 object has just been refused by the POAVR slot
C2_Witness ==
    /\ result.op = "setslot"
    /\ result.args[1] = "POAVR"
    /\ result.args[2].type = "POAV2"
    /\ result.kind = "raise"

\* C3: reading a slot that was never assigned returns None and does not
\* fail.  A slot starts as None, stops being None only by a successful
\* assignment to it, and a read returns what the slot holds.
C3_UnsetSlotReadsAbsent ==
    /\ \A slot \in Slots : IsNone(atom[slot])
    /\ [][\A slot \in Slots :
            IsNone(atom[slot]) /\ ~IsNone(atom'[slot]) =>
                /\ result'.op = "setslot"
                /\ result'.kind = "return"
                /\ result'.args[1] = slot]_vars
    /\ [](result.op = "getslot" =>
            /\ result.kind = "return"
            /\ IsNone(atom[result.args[1]]) => IsNone(result.val))

\* an unassigned slot has been read while another slot holds an object
C3_Witness ==
    /\ result.op = "getslot"
    /\ IsNone(atom[result.args[1]])
    /\ IsNone(result.val)
    /\ \E slot \in Slots : ~IsNone(atom[slot])

\* C23: an assignment to an attachment slot that raises leaves the atom as
\* it was: the slot assigned to holds what it held before, None or the
\* object stored earlier, and so do the other two slots.
C23_RejectedSlotUnchanged ==
    [][(result'.op = "setslot" /\ result'.kind = "raise") =>
           \A slot \in Slots : atom'[slot] = atom[slot]]_vars

\* an assignment to a slot that holds an object has just been rejected, and
\* the slot and another one hold their objects
C23_Witness ==
    /\ result.op = "setslot"
    /\ result.kind = "raise"
    /\ ~IsNone(atom[result.args[1]])
    /\ \E slot \in Slots \ {result.args[1]} : ~IsNone(atom[slot])

----------------------------------------------------------------------------
(* Angle arrays and todict (SpecAngles)                                    *)

AnyUnset(o) == \E name \in AngleNames : IsNone(o[name])

\* a stored array too short for the subscripts [0], [1], [2]
HasShort(o) ==
    \E name \in AngleNames : ~IsNone(o[name]) /\ Len(o[name].items) < 3

\* C4: an angle array whose length is not exactly 3 is refused when it is
\* assigned and is not stored, so every stored array has three elements.
C4_OnlyLength3Stored ==
    /\ \A i \in 1..Len(heap) : \A name \in AngleNames :
           ~IsNone(heap[i][name]) => Len(heap[i][name].items) = 3
    /\ (result.op = "setattr" /\ result.args[3].type = "list"
            /\ Len(result.args[3].items) # 3) => result.kind = "raise"

\* C5: an angle array that has been set is never replaced by a later
\* assignment.
C5_WriteOnce ==
    [][\A i \in 1..Len(heap) : \A name \in AngleNames :
          ~IsNone(heap[i][name]) => heap'[i][name] = heap[i][name]]_vars

\* C6: while at least one of the three angle arrays is unset, todict raises
\* and yields no mapping, whatever rad2deg is; the exception is a TypeError
\* unless a stored array shorter than three is subscripted first.  A mapping
\* is returned only when all three arrays are set.
C6_TodictNeedsAllArrays ==
    /\ \A i \in 1..Len(heap) : \A rad2deg \in BOOLEAN :
           AnyUnset(heap[i]) =>
               \A r \in {todict(heap[i], rad2deg)} :
                   /\ ~r.ok
                   /\ r.exc \in {"TypeError", "IndexError"}
                   /\ r.exc = "IndexError" => ~rad2deg /\ HasShort(heap[i])
    /\ (result.op = "todict" /\ result.kind = "return") =>
           ~AnyUnset(heap[result.args[1]])

\* todict has just raised TypeError on an object with some arrays set and
\* one unset
C6_Witness ==
    /\ result.op = "todict"
    /\ result.kind = "raise"
    /\ result.exc = "TypeError"
    /\ AnyUnset(heap[result.args[1]])
    /\ \E name \in AngleNames : ~IsNone(heap[result.args[1]][name])

\* the keys of the base mapping
BaseKeys ==
    {"bond1", "bond2", "bond3",
     "sigma_pi_angle1", "sigma_pi_angle2", "sigma_pi_angle3",
     "pyramidalization_angle1", "pyramidalization_angle2",
     "pyramidalization_angle3",
     "misalignment_angle1", "misalignment_angle2", "misalignment_angle3",
     "T", "H", "A"}

\* the keys a subclass adds
ExtraKeys(cls) ==
    CASE cls = "POAV1" -> {"m", "n"}
      [] cls = "POAV2" -> {"m", "n1", "n2", "n3"}
      [] OTHER -> {}

\* the keys under which the elements of an angle array are exported
AngleKeys ==
    [sigma_pi_angles |->
        <<"sigma_pi_angle1", "sigma_pi_angle2", "sigma_pi_angle3">>,
     pyramidalization_angles |->
        <<"pyramidalization_angle1", "pyramidalization_angle2",
          "pyramidalization_angle3">>,
     misalignment_angles |->
        <<"misalignment_angle1", "misalignment_angle2",
          "misalignment_angle3">>]

\* C7: a mapping returned by todict has exactly the fifteen base keys, plus
\* m and n for POAV1, plus m, n1, n2, n3 for POAV2, and nothing more for the
\* base class and POAVR; the angle key numbered k carries element k-1 of
\* the stored array (in degrees when rad2deg is set).
C7_TodictKeys ==
    \A i \in 1..Len(heap) : \A rad2deg \in BOOLEAN :
        \A r \in {todict(heap[i], rad2deg)} :
            r.ok =>
                /\ DOMAIN r.obj = BaseKeys \cup ExtraKeys(heap[i].cls)
                /\ \A name \in AngleNames : \A k \in 1..3 :
                       r.obj[AngleKeys[name][k]] =
                           IF rad2deg THEN degrees(heap[i][name].items[k])
                           ELSE heap[i][name].items[k]

\* todict has just returned the mapping of a POAV1 object
C7_Witness ==
    /\ result.op = "todict"
    /\ result.kind = "return"
    /\ heap[result.args[1]].cls = "POAV1"
    /\ "n" \in DOMAIN result.val

\* C8: with rad2deg set, each of the nine angle values of the mapping is the
\* stored radian value times 180 / pi: one power of pi less and a
\* coefficient 180 times as large.
C8_Rad2Deg ==
    \A i \in 1..Len(heap) :
        \A d \in {todict(heap[i], TRUE)} : \A r \in {todict(heap[i], FALSE)} :
            d.ok /\ r.ok =>
                \A name \in AngleNames : \A k \in 1..3 :
                    \A dv \in {d.obj[AngleKeys[name][k]]} :
                    \A rv \in {r.obj[AngleKeys[name][k]]} :
                        /\ dv.pi = rv.pi - 1
                        /\ dv.q[2] # 0 /\ rv.q[2] # 0
                        /\ dv.q[1] * rv.q[2] = 180 * rv.q[1] * dv.q[2]

\* todict(rad2deg=True) has just returned 60 degrees for a stored pi / 3
C8_Witness ==
    /\ result.op = "todict"
    /\ result.kind = "return"
    /\ result.args[2]
    /\ heap[result.args[1]].sigma_pi_angles.items[1] = Rad12(4)
    /\ result.val.sigma_pi_angle1 = Real(<<60, 1>>, 0)

----------------------------------------------------------------------------
(* Construction and the derived quantities (SpecGeom)                      *)

\* C9: an object is constructed only from exactly three bonds, none of them
\* of zero length.
C9_OnlyThreeNonZeroBonds ==
    (result.op = "new" /\ result.kind = "return") =>
        /\ Len(result.args[2]) = 3
        /\ \A k \in 1..3 : result.args[2][k] # Vec(0, 0, 0)

\* C10: when t is zero, reading vpi, Vpi, A or H raises instead of returning
\* a value.
C10_CoplanarReadsFail ==
    (/\ result.op = "read"
     /\ result.args[2] \in {"vpi", "Vpi", "A", "H"}
     /\ t(heap[result.args[1]]) = Zero) => result.kind = "raise"

----------------------------------------------------------------------------
(* Hybridization indices and the volumes T                                 *)

\* the object of the last call
Target == heap[result.args[1]]

\* C11: for POAV2, when one of the pairwise-angle cosines is zero, so that a
\* denominator of n1, n2 or n3 is zero, reading n1, n2, n3 or m raises
\* instead of returning a value.
C11_ZeroDenominatorFails ==
    (/\ result.op = "read"
     /\ result.args[2] \in {"n1", "n2", "n3", "m"}
     /\ Target.cls = "POAV2"
     /\ \E k \in 1..3 : Target.cosa[k] = Zero) => result.kind = "raise"

\* C12: reading m or n of a POAV1 object whose sigma_pi_angles is unset
\* raises (TypeError, from np.mean(None)) and returns no number.
C12_HybridNeedsSigmaPi ==
    /\ \A i \in 1..Len(heap) :
           (heap[i].cls = "POAV1" /\ IsNone(heap[i].sigma_pi_angles)) =>
               /\ ~GetProp(heap[i], "m").ok
               /\ ~GetProp(heap[i], "n").ok
    /\ (/\ result.op = "read"
        /\ result.args[2] \in {"m", "n"}
        /\ Target.cls = "POAV1"
        /\ IsNone(Target.sigma_pi_angles)) =>
           result.kind = "raise" /\ result.exc = "TypeError"

\* n of a POAV1 object has just been read with sigma_pi_angles unset and
\* another array set
C12_Witness ==
    /\ result.op = "read"
    /\ result.args[2] = "n"
    /\ Target.cls = "POAV1"
    /\ IsNone(Target.sigma_pi_angles)
    /\ ~IsNone(Target.misalignment_angles)
    /\ result.kind = "raise"

\* C13: for a POAV2 object whose n1, n2, n3 and m are all defined,
\* 1/(1+n1) + 1/(1+n2) + 1/(1+n3) = 1/(1+m).  With n = a/b, 1/(1+n) is
\* b/(a+b); the sum is compared with bm/(am+bm) by cross-multiplication.
C13_POAV2Identity ==
    \A i \in 1..Len(heap) :
        heap[i].cls = "POAV2" =>
            \A n1 \in {POAV2_n1(heap[i])} : \A n2 \in {POAV2_n2(heap[i])} :
            \A n3 \in {POAV2_n3(heap[i])} : \A m \in {POAV2_m(heap[i])} :
            \A d1 \in {n1[1] + n1[2]} : \A d2 \in {n2[1] + n2[2]} :
            \A d3 \in {n3[1] + n3[2]} :
                (/\ IsFinite(n1) /\ IsFinite(n2) /\ IsFinite(n3)
                 /\ d1 # 0 /\ d2 # 0 /\ d3 # 0
                 /\ IsFinite(m) /\ m[1] + m[2] # 0) =>
                    (n1[2] * d2 * d3 + n2[2] * d1 * d3 + n3[2] * d1 * d2)
                            * (m[1] + m[2])
                        = m[2] * (d1 * d2 * d3)

\* m of a POAV2 object with three different bond angles has just been read
C13_Witness ==
    /\ result.op = "read"
    /\ result.args[2] = "m"
    /\ result.kind = "return"
    /\ Target.cls = "POAV2"
    /\ Target.b = Mixed
    /\ result.val = <<-33, 49>>

\* the unit-vector reference volume of three bond vectors
T0(b) ==
    NumDiv(scalar_triple_product(unit_vector(b[1]), unit_vector(b[2]),
                                 unit_vector(b[3])),
           Int2Num(6))

\* C14: for a POAVR object, T = R1 * R2 * R3 * T0 with T0 the scalar triple
\* product of the three unit bond vectors divided by 6; with three bonds
\* of length 1, T = T0.
C14_POAVRVolume ==
    \A i \in 1..Len(heap) :
        (heap[i].cls = "POAVR" /\ IsFinite(T0(heap[i].b))) =>
            /\ T(heap[i]) =
                   NumMul(NumMul(NumMul(length(heap[i].b[1]),
                                        length(heap[i].b[2])),
                                 length(heap[i].b[3])),
                          T0(heap[i].b))
            /\ (\A k \in 1..3 : length(heap[i].b[k]) = Int2Num(1)) =>
                   T(heap[i]) = T0(heap[i].b)

\* T of a POAVR object with bonds of lengths 6, 3, 3 has just been read
C14_Witness ==
    /\ result.op = "read"
    /\ result.args[2] = "T"
    /\ Target.cls = "POAVR"
    /\ Target.b = Stretched
    /\ result.val = <<5, 3>>

\* C15: for a POAV1 object with sigma_pi_angles set, n = 3 m + 2 and
\* m (1 - 3 c) = 2 c with c the squared cosine of the mean sigma-pi angle;
\* with three angles of pi/2, m is 0 and n is 2.
C15_POAV1Indices ==
    \A i \in 1..Len(heap) :
        (heap[i].cls = "POAV1" /\ ~IsNone(heap[i].sigma_pi_angles)) =>
            \A m \in {GetProp(heap[i], "m")} : \A n \in {GetProp(heap[i], "n")} :
            \A c \in {square[cos(mean(heap[i].sigma_pi_angles.items))]} :
                /\ m.ok /\ n.ok
                /\ IsFinite(m.obj) /\ IsFinite(n.obj)
                /\ n.obj[1] * m.obj[2]
                       = (3 * m.obj[1] + 2 * m.obj[2]) * n.obj[2]
                /\ NumMul(m.obj, NumAdd(Int2Num(1),
                                        NumNeg(NumMul(Int2Num(3), c))))
                       = NumMul(Int2Num(2), c)
                /\ heap[i].sigma_pi_angles = ListC =>
                       m.obj = <<0, 1>> /\ n.obj = <<2, 1>>

\* n has just been read as 2 from a POAV1 object with three sigma-pi angles
\* of pi/2
C15_Witness ==
    /\ result.op = "read"
    /\ result.args[2] = "n"
    /\ result.kind = "return"
    /\ Target.cls = "POAV1"
    /\ Target.sigma_pi_angles = ListC
    /\ result.val = <<2, 1>>

\* C16: for the orthonormal bond vectors (1,0,0), (0,1,0), (0,0,1), t of the
\* POAV1 object, computed on the unit bond vectors, is 1.
C16_OrthonormalT ==
    /\ \A i \in 1..Len(heap) :
           (heap[i].cls = "POAV1" /\ heap[i].b = Ortho) =>
               /\ heap[i].v = Ortho
               /\ GetProp(heap[i], "t") = Ok(<<1, 1>>)
    /\ (/\ result.op = "read"
        /\ result.args[2] = "t"
        /\ Target.cls = "POAV1"
        /\ Target.b = Ortho) => (result.kind = "return" /\ result.val = <<1, 1>>)

\* t of the POAV1 object of the orthonormal bonds has just been read
C16_Witness ==
    /\ result.op = "read"
    /\ result.args[2] = "t"
    /\ result.kind = "return"
    /\ Target.cls = "POAV1"
    /\ Target.b = Ortho
    /\ result.val = Int2Num(1)

----------------------------------------------------------------------------
(* POAV2 and the order of the bond pairs                                   *)

\* the cosine of the angle between the two bonds other than bond i
CosOpposite(b, i) == cosangle[b[(i % 3) + 1], b[((i + 1) % 3) + 1]]

\* v_i = cos(theta_opp) * unit(bond_i) for the three bonds of an object
OppositeAngleVectors(o) ==
    \A i \in 1..3 :
        o.v[i] = VecScale(CosOpposite(o.b, i), unit_vector(o.b[i]))

\* the bond that the pair at position k leaves out
LeftOut(o, k) == CHOOSE j \in 1..3 : j \notin o.bonds.bond_angle_pairs[k]

\* the pair at position k leaves out bond j exactly when the pair at
\* position j leaves out bond k; the order (1,2), (1,3), (2,3) is one
Reciprocal(o) == \A k \in 1..3 : LeftOut(o, LeftOut(o, k)) = k

\* C19 as claimed: for every order of the three pairs, the representative
\* vector of each bond i of a POAV2 object is cos(theta_opp) * unit(bond_i),
\* theta_opp being the angle between the other two bonds.
C19_EveryPairOrder ==
    \A i \in 1..Len(heap) :
        heap[i].cls = "POAV2" => OppositeAngleVectors(heap[i])

\* C19 amended: the same, for the orders of the pairs in which the pair at
\* position k leaves out bond j exactly when the pair at position j leaves
\* out bond k, among them the order (1,2), (1,3), (2,3).
C19_ReciprocalPairOrder ==
    \A i \in 1..Len(heap) :
        (heap[i].cls = "POAV2" /\ Reciprocal(heap[i])) =>
            OppositeAngleVectors(heap[i])

\* a POAV2 object over three different bond angles whose pairs are listed
\* in another reciprocal order than (1,2), (1,3), (2,3)
C19_Witness ==
    \E i \in 1..Len(heap) :
        /\ heap[i].cls = "POAV2"
        /\ heap[i].b = Mixed
        /\ Reciprocal(heap[i])
        /\ heap[i].bonds.bond_angle_pairs # pairsFrom[1, 2, 3]
        /\ heap[i].v[1] = VecScale(<<11, 15>>, unit_vector(Mixed[1]))

\* C20: for a POAV2 object, T = -(cosa12 * cosa13 * cosa23) * T0 with the
\* cosines of the three pairwise bond angles, in whatever order the angles
\* are supplied.
C20_POAV2Volume ==
    \A i \in 1..Len(heap) :
        (heap[i].cls = "POAV2" /\ IsFinite(T0(heap[i].b))) =>
            T(heap[i]) =
                NumMul(NumNeg(NumMul(NumMul(cosangle[heap[i].b[1], heap[i].b[2]],
                                            cosangle[heap[i].b[1], heap[i].b[3]]),
                                     cosangle[heap[i].b[2], heap[i].b[3]])),
                       T0(heap[i].b))

\* T of a POAV2 object over three different angles, its pairs not in the
\* order (1,2), (1,3), (2,3), has just been read
C20_Witness ==
    /\ result.op = "read"
    /\ result.args[2] = "T"
    /\ Target.cls = "POAV2"
    /\ Target.b = Mixed
    /\ Target.bonds.bond_angle_pairs # pairsFrom[1, 2, 3]
    /\ result.val = NumMul(<<-11, 75>>, T0(Mixed))

----------------------------------------------------------------------------
(* The curvature descriptor H                                              *)

\* the T that each class stores: T0 for POAV and POAV1, T0 weighted by the
\* three cosines for POAV2 and by the three bond lengths for POAVR
ActiveT(o) ==
    CASE o.cls = "POAV2" ->
             NumMul(NumNeg(NumMul(NumMul(cosangle[o.b[1], o.b[2]],
                                         cosangle[o.b[1], o.b[3]]),
                                  cosangle[o.b[2], o.b[3]])),
                    T0(o.b))
      [] o.cls = "POAVR" ->
             NumMul(NumMul(NumMul(length(o.b[1]), length(o.b[2])),
                           length(o.b[3])),
                    T0(o.b))
      [] OTHER -> T0(o.b)

\* the square of A: |(v2 x v3 + v3 x v1 + v1 x v2) / t|^2
ASquared(o) ==
    CHOOSE r_ \in
        {vecdot[w, w] :
            w \in {VecDiv(VecAdd(VecAdd(cross(o.v[2], o.v[3]),
                                        cross(o.v[3], o.v[1])),
                                 cross(o.v[1], o.v[2])),
                          scalar_triple_product(o.v[1], o.v[2], o.v[3]))}} : TRUE

\* C22: in every class H = 3 T / A, T being the class's own T and A the
\* magnitude of vpi = (v2 x v3 + v3 x v1 + v1 x v2) / t of the object's
\* v1, v2, v3.  A and H are surds c * sqrt(r): A^2 is the square of that
\* vector and, where T and A are finite and A is not zero, H and A have the
\* same r and H.c * A.c * r = 3 T.
C22_CurvatureDescriptor ==
    /\ \A i \in 1..Len(heap) :
           \A h \in {H(heap[i])} : \A a \in {A(heap[i])} :
           \A a2 \in {ASquared(heap[i])} : \A at \in {ActiveT(heap[i])} :
               (IsFinite(at) /\ IsFinite(a2) /\ a2 # Zero) =>
                   /\ IsFinite(a.c) /\ a.c[1] > 0
                   /\ NumMul(a.c, NumMul(a.c, Int2Num(a.r))) = a2
                   /\ IsFinite(h.c)
                   /\ at # Zero => h.r = a.r
                   /\ NumMul(h.c, NumMul(a.c, Int2Num(a.r)))
                          = NumMul(Int2Num(3), at)
    /\ (result.op = "read" /\ result.args[2] = "H") =>
           result.kind = "return" /\ result.val = H(Target)

\* H of a POAV2 object over three different bond angles has just been read
C22_Witness ==
    /\ result.op = "read"
    /\ result.args[2] = "H"
    /\ result.kind = "return"
    /\ Target.cls = "POAV2"
    /\ Target.b = Mixed
    /\ IsFinite(result.val.c)
    /\ result.val.c # Zero

\* C27: in a constructed object with a finite T, 6 T = t for POAV1 and for
\* POAVR, whose v1, v2, v3 are the bond vectors themselves, and 6 T = -t for
\* POAV2 when the three pairs select the angles at three different
\* positions.
C27_VolumeOfRepresentatives ==
    \A i \in 1..Len(heap) :
        \A o \in {heap[i]} : \A six \in {NumMul(Int2Num(6), T(heap[i]))} :
            IsFinite(six) =>
                /\ o.cls \in {"POAV1", "POAVR"} => six = t(o)
                /\ o.cls = "POAVR" => o.v = o.b
                /\ (/\ o.cls = "POAV2"
                    /\ Cardinality({NotInPair(o.bonds,
                                              o.bonds.bond_angle_pairs[k])[1]
                                        : k \in 1..3}) = 3) =>
                       six = NumNeg(t(o))

\* t of a POAV2 object over three different bond angles, its pairs in an
\* order that is not reciprocal, has just been read
C27_Witness ==
    /\ result.op = "read"
    /\ result.args[2] = "t"
    /\ result.kind = "return"
    /\ Target.cls = "POAV2"
    /\ Target.b = Mixed
    /\ ~Reciprocal(Target)
    /\ result.val # Zero
    /\ result.val = NumNeg(NumMul(Int2Num(6), Target.T))

----------------------------------------------------------------------------
(* Two atoms analysed by two workers (SpecAtoms).  Worker w owns the atom  *)
(* atoms[w].atom and the POAV object heap[atoms[w].poav] (0: none yet);    *)
(* the objects of both workers live on the one heap.  solo.view[w] is what *)
(* the calls of worker w give when they are made alone, on a heap of its   *)
(* own, and solo.result the outcome of the last call when made alone.      *)

Workers == {1, 2}

\* each worker has its own bond triple and its own angle values
BondsOf(w) == IF w = 1 THEN Skew ELSE Mixed

AnglesOf(w) == IF w = 1 THEN ListB ELSE ListC

\* the analyses each worker can make
ClassesOf(w) == IF w = 1 THEN {"POAV1", "POAV2"} ELSE {"POAV1"}

\* what the calls of a worker act on: a heap, its atom, its POAV object,
\* and the outcome of its last call
View(h, a, p, r) == [heap |-> h, atom |-> a, poav |-> p, result |-> r]

\* poav = cls(bonds)
DoNew(view, w, cls, vectors) ==
    CHOOSE r_ \in
        {IF r.ok
         THEN View(Append(view.heap, r.obj), view.atom, Len(view.heap) + 1,
                   Returned("new", <<w, cls, vectors>>, [type |-> cls]))
         ELSE [view EXCEPT
                 !.result = Raised("new", <<w, cls, vectors>>, r.exc)]
           : r \in {New(cls, Bonds(vectors))}} : TRUE

\* an angle array kept in a class attribute, shared by every object
DoSetAttr_ClassAttribute(view, w, name, value) ==
    CHOOSE r_ \in
        {IF r.ok
         THEN [view EXCEPT
                 !.heap = [k \in DOMAIN view.heap |->
                             [view.heap[k] EXCEPT ![name] = value]],
                 !.result = Returned("setattr", <<w, name, value>>, None)]
         ELSE [view EXCEPT
                 !.result = Raised("setattr", <<w, name, value>>, r.exc)]
           : r \in {SetAttr(view.heap[view.poav], name, value)}} : TRUE

\* poav.<name> = value
DoSetAttr(view, w, name, value) ==
    CHOOSE r_ \in
        {IF r.ok
         THEN [view EXCEPT
                 !.heap[view.poav] = r.obj,
                 !.result = Returned("setattr", <<w, name, value>>, None)]
         ELSE [view EXCEPT
                 !.result = Raised("setattr", <<w, name, value>>, r.exc)]
           : r \in {SetAttr(view.heap[view.poav], name, value)}} : TRUE

\* atom.<slot> = poav
DoSetSlot(view, w, slot) ==
    CHOOSE r_ \in
        {IF r.ok
         THEN [view EXCEPT
                 !.atom = r.obj,
                 !.result = Returned("setslot", <<w, slot>>, None)]
         ELSE [view EXCEPT
                 !.result = Raised("setslot", <<w, slot>>, r.exc)]
           : r \in {SetSlot(view.atom, slot,
                            [type |-> view.heap[view.poav].cls,
                             ref |-> view.poav])}} : TRUE

\* poav.todict(rad2deg)
DoTodict(view, w, rad2deg) ==
    CHOOSE r_ \in
        {[view EXCEPT
            !.result = IF r.ok THEN Returned("todict", <<w, rad2deg>>, r.obj)
                       ELSE Raised("todict", <<w, rad2deg>>, r.exc)]
           : r \in {todict(view.heap[view.poav], rad2deg)}} : TRUE

\* the shared heap and the atom and object of worker w
WorkerView(w) == View(heap, atoms[w].atom, atoms[w].poav, result)

\* the heap, atom and object of worker w on its own
SoloView(w) ==
    View(solo.view[w].heap, solo.view[w].atom, solo.view[w].poav, solo.result)

\* the outcome of a call of worker w, on the shared heap and alone
Commit(w, after, alone) ==
    /\ heap' = after.heap
    /\ atoms' = [atoms EXCEPT ![w] = [atom |-> after.atom, poav |-> after.poav]]
    /\ result' = after.result
    /\ solo' = [view |-> [solo.view EXCEPT
                             ![w] = [heap |-> alone.heap, atom |-> alone.atom,
                                     poav |-> alone.poav]],
                result |-> alone.result]
    /\ UNCHANGED atom

WNew(w, cls) ==
    /\ atoms[w].poav = 0
    /\ \E after \in {DoNew(WorkerView(w), w, cls, BondsOf(w))} :
       \E alone \in {DoNew(SoloView(w), w, cls, BondsOf(w))} :
           Commit(w, after, alone)

WSetAttr(w, name, value) ==
    /\ atoms[w].poav # 0
    /\ \E after \in {DoSetAttr(WorkerView(w), w, name, value)} :
       \E alone \in {DoSetAttr(SoloView(w), w, name, value)} :
           Commit(w, after, alone)

WSetSlot(w, slot) ==
    /\ atoms[w].poav # 0
    /\ \E after \in {DoSetSlot(WorkerView(w), w, slot)} :
       \E alone \in {DoSetSlot(SoloView(w), w, slot)} :
           Commit(w, after, alone)

WTodict(w, rad2deg) ==
    /\ atoms[w].poav # 0
    /\ \E after \in {DoTodict(WorkerView(w), w, rad2deg)} :
       \E alone \in {DoTodict(SoloView(w), w, rad2deg)} :
           Commit(w, after, alone)

InitAtoms ==
    /\ heap = <<>>
    /\ atom = POAVAtom_init
    /\ result = NoCall
    /\ atoms = [w \in Workers |-> [atom |-> POAVAtom_init, poav |-> 0]]
    /\ solo = [view |-> [w \in Workers |->
                            [heap |-> <<>>, atom |-> POAVAtom_init, poav |-> 0]],
               result |-> NoCall]

\* the steps of the two workers, interleaved in every order
NextAtoms ==
    \/ \E w \in Workers : \E cls \in ClassesOf(w) : WNew(w, cls)
    \/ \E w \in Workers : \E name \in AngleNames :
           \E value \in {AnglesOf(w), PyFloat(Rad12(6))} :
               WSetAttr(w, name, value)
    \/ \E w \in Workers : \E slot \in Slots : WSetSlot(w, slot)
    \/ \E w \in Workers : \E rad2deg \in BOOLEAN : WTodict(w, rad2deg)

SpecAtoms == InitAtoms /\ [][NextAtoms]_vars

\* what a slot holds: None, or the object it refers to
SlotContent(h, a, slot) == IF IsNone(a[slot]) THEN None ELSE h[a[slot].ref]

\* C17: a rejected angle-array assignment and a rejected slot assignment
\* raise errors of different kinds, so that a caller tells them apart by
\* the error alone.
C17_DistinguishableKinds ==
    [][(/\ result.op = "setattr" /\ result.kind = "raise"
        /\ result'.op = "setslot" /\ result'.kind = "raise") =>
           result'.exc # result.exc]_vars

\* C18: whatever the interleaving of the two workers' calls, the object,
\* the slot contents and the outcome of the last call of each worker are
\* those of the same calls made alone.
C18_AtomsIndependent ==
    \A w \in DOMAIN atoms :
        /\ (atoms[w].poav = 0) = (solo.view[w].poav = 0)
        /\ atoms[w].poav # 0 =>
               heap[atoms[w].poav] = solo.view[w].heap[solo.view[w].poav]
        /\ \A slot \in Slots :
               SlotContent(heap, atoms[w].atom, slot)
                   = SlotContent(solo.view[w].heap, solo.view[w].atom, slot)
        /\ result = solo.result

\* worker 2 constructed first, both workers set angle arrays, worker 1
\* filled a slot, and todict of worker 2 has just returned
C18_Witness ==
    /\ atoms[1].poav = 2
    /\ atoms[2].poav = 1
    /\ \E slot \in Slots : ~IsNone(atoms[1].atom[slot])
    /\ ~IsNone(heap[2].sigma_pi_angles)
    /\ result.op = "todict"
    /\ result.kind = "return"
    /\ result.args[1] = 2

----------------------------------------------------------------------------
(* The life of one instance: what its operations leave alone (SpecLife)    *)

\* values assigned to an angle array: two lists and two values that are
\* refused
LifeInputs == {ListB, ListC, None, PyFloat(Rad12(6))}

\* one constructed object of any class, on equal-angle or mixed bonds
InitLife ==
    /\ heap \in {<<New(cls, Bonds(vectors)).obj>> :
                    cls \in Classes, vectors \in {Skew, Mixed}}
    /\ atom = POAVAtom_init
    /\ result = NoCall
    /\ atoms = <<>>
    /\ solo = <<>>

NextLife ==
    \/ \E i \in 1..Len(heap) : \E name \in AngleNames :
           \E value \in LifeInputs : AssignAngles(i, name, value)
    \/ \E i \in 1..Len(heap) : \E rad2deg \in BOOLEAN : CallTodict(i, rad2deg)
    \/ \E i \in 1..Len(heap) : \E prop \in PropNames \cup HybridNames :
           ReadProp(i, prop)

SpecLife == InitLife /\ [][NextLife]_vars

\* C24: an angle array that has been set is never unset again.  An
\* assignment of a value that is not a list, None included, raises and
\* changes nothing; an assignment of a list stores that list; no other
\* operation changes an array.
C24_SetStaysSet ==
    [][/\ \A i \in 1..Len(heap) : \A name \in AngleNames :
              ~IsNone(heap[i][name]) =>
                  /\ heap'[i][name].type = "list"
                  /\ heap'[i][name] # heap[i][name] =>
                         /\ result'.op = "setattr"
                         /\ result'.kind = "return"
                         /\ result'.args = <<i, name, heap'[i][name]>>
       /\ (result'.op = "setattr" /\ result'.args[3].type # "list") =>
              /\ result'.kind = "raise"
              /\ heap' = heap]_vars

\* None has just been refused by an array that holds a list
C24_Witness ==
    /\ result.op = "setattr"
    /\ result.kind = "raise"
    /\ result.args[3] = None
    /\ Target[result.args[2]] = ListB

\* C25: an assignment to one angle array, returned or raised, leaves the
\* other two arrays of the object as they were (and every other object).
C25_OtherArraysUnchanged ==
    [][result'.op = "setattr" =>
           \A i \in 1..Len(heap) : \A name \in AngleNames :
               (i # result'.args[1] \/ name # result'.args[2]) =>
                   heap'[i][name] = heap[i][name]]_vars

\* a list has just been stored in one array while the other two hold two
\* other lists
C25_Witness ==
    /\ result.op = "setattr"
    /\ result.kind = "return"
    /\ result.args[2] = "misalignment_angles"
    /\ Target.misalignment_angles = ListC
    /\ Target.sigma_pi_angles = ListB
    /\ Target.pyramidalization_angles = ListA(3)

\* C26: todict, returned or raised, with either argument, leaves the object
\* as it was, its three arrays still the stored radians.  So a call repeated
\* with the same argument gives the same outcome, and an export in radians,
\* also one that follows an export in degrees, returns the stored values.
C26_TodictReadsOnly ==
    [][result'.op = "todict" =>
           /\ heap' = heap
           /\ (result.op = "todict" /\ result.args = result'.args) =>
                  result' = result
           /\ (result'.kind = "return" /\ ~result'.args[2]) =>
                  \A o \in {heap[result'.args[1]]} : \A d \in {result'.val} :
                      /\ d.sigma_pi_angle1 = o.sigma_pi_angles.items[1]
                      /\ d.sigma_pi_angle2 = o.sigma_pi_angles.items[2]
                      /\ d.sigma_pi_angle3 = o.sigma_pi_angles.items[3]
                      /\ d.pyramidalization_angle1 =
                             o.pyramidalization_angles.items[1]
                      /\ d.pyramidalization_angle2 =
                             o.pyramidalization_angles.items[2]
                      /\ d.pyramidalization_angle3 =
                             o.pyramidalization_angles.items[3]
                      /\ d.misalignment_angle1 = o.misalignment_angles.items[1]
                      /\ d.misalignment_angle2 = o.misalignment_angles.items[2]
                      /\ d.misalignment_angle3 = o.misalignment_angles.items[3]]_vars

\* an export in degrees has just returned and the arrays hold their radians
C26_Witness ==
    /\ result.op = "todict"
    /\ result.kind = "return"
    /\ result.args[2]
    /\ result.val.sigma_pi_angle1 = degrees(Rad12(2))
    /\ Target.sigma_pi_angles = ListB
    /\ Target.pyramidalization_angles = ListC
    /\ Target.misalignment_angles = ListA(MaxListLen)

\* the derived quantities that todict exports or that depend on _T
Derived == {"T", "H", "A", "Vpi"}

\* C21: once an object is constructed, no assignment to an angle array, no
\* property read and no todict call changes v1, v2, v3, the bond vectors or
\* the stored T, from which T, H, A and Vpi are computed on every read; a
\* read of one of them returns what it returns on a newly constructed object
\* of the same class and bonds, whatever was called in between.
C21_GeometryFixed ==
    [][/\ Len(heap') = Len(heap)
       /\ \A i \in 1..Len(heap) :
              /\ heap'[i].cls = heap[i].cls
              /\ heap'[i].v = heap[i].v
              /\ heap'[i].b = heap[i].b
              /\ heap'[i].T = heap[i].T
       /\ (result'.op = "read" /\ result'.args[2] \in Derived) =>
              /\ result'.kind = "return"
              /\ \A o \in {heap[result'.args[1]]} :
                     result'.val =
                         ReadOf(New(o.cls, Bonds(o.b)).obj, result'.args[2])]_vars

\* H has just been read from an object whose angle arrays have been assigned
C21_Witness ==
    /\ result.op = "read"
    /\ result.args[2] = "H"
    /\ result.kind = "return"
    /\ Target.cls = "POAV2"
    /\ Target.b = Mixed
    /\ Target.sigma_pi_angles = ListB
    /\ Target.misalignment_angles = ListC

====
